---- MODULE Spec2Model ----
(***************************************************************************)
(* Version discovery and mirror-gap detection of                           *)
(* .github/scripts/mirror_images.py: the version grammar and sort key,     *)
(* the probe-minimising search filter_versions_binary_search, and the      *)
(* per-variant driver discover_versions.                                   *)
(*                                                                         *)
(* A version string is a sequence of one-character strings, so that        *)
(* parsing is computed from the characters as the regular expression       *)
(* does.  An optional integer (Python's None or an int) is the empty       *)
(* sequence or a one-element sequence.                                     *)
(***************************************************************************)
EXTENDS Integers, Sequences, FiniteSets, TLC

VARIABLES
    pc,              \* position inside filter_versions_binary_search
    versions,        \* its argument: the list of version strings
    force_full_sync, \* its argument
    left, right,     \* the bisection interval
    first_missing,   \* lowest index known missing (0-based, count if none)
    result, seen,    \* the collected list and the set deduplicating it
    idx,             \* loop index of the re-check window (0-based)
    ret,             \* the returned list
    oracle,          \* environment: tag -> outcomes the inspect call may have
    searchProbes,    \* probe calls issued by the bisection loop
    recheckProbes,   \* probe calls issued by the re-check window
    probedPresent,   \* indices whose probe returned True
    probedMissing,   \* indices whose probe returned False
    windowAdded,     \* indices appended to result by the re-check window
    dpc,             \* position inside discover_versions
    variant_filter,  \* its argument
    vpos,            \* index of the variant being processed (1..3)
    mirrorSet,       \* its result dict: variant -> list
    keyIn,           \* the two strings handed to version_sort_key
    keyOut           \* the two keys it returned

vars == <<pc, versions, force_full_sync, left, right, first_missing, result,
          seen, idx, ret, oracle, searchProbes, recheckProbes, probedPresent,
          probedMissing, windowAdded, dpc, variant_filter, vpos, mirrorSet,
          keyIn, keyOut>>

filterVars == <<pc, versions, force_full_sync, left, right, first_missing,
                result, seen, idx, ret, oracle, searchProbes, recheckProbes,
                probedPresent, probedMissing, windowAdded>>

discoverVars == <<dpc, variant_filter, vpos, mirrorSet>>

keyVars == <<keyIn, keyOut>>

----------------------------------------------------------------------------
(* Bounds of the model.                                                    *)

\* Longest enumerated input list (the 100-element list of the spec's
\* scenarios is added on top of the enumerated ones).
MaxLen == 3

\* Largest number used for a component of a generated version string.
MaxPart == 1

----------------------------------------------------------------------------
(* Characters and integers.                                                *)

Digits == <<"0", "1", "2", "3", "4", "5", "6", "7", "8", "9">>

IsDigit(c) == \E d \in 1..10 : Digits[d] = c

DigitValue(c) == (CHOOSE d \in 1..10 : Digits[d] = c) - 1

\* int(text) for a non-empty run of decimal digits.
RECURSIVE ToInt(_)
ToInt(s) ==
    IF s = <<>> THEN 0
    ELSE ToInt(SubSeq(s, 1, Len(s) - 1)) * 10 + DigitValue(s[Len(s)])

\* Length of the longest run of digits of s starting at position p: what a
\* greedy \d+ consumes there (0 when \d+ cannot match).
RECURSIVE DigitRun(_, _)
DigitRun(s, p) ==
    IF p <= Len(s) /\ IsDigit(s[p]) THEN 1 + DigitRun(s, p + 1) ELSE 0

\* The literal lit occurs in s at position p.
HasLit(s, p, lit) ==
    /\ p + Len(lit) - 1 <= Len(s)
    /\ \A j \in 1..Len(lit) : s[p + j - 1] = lit[j]

\* Python's $ : the end of the string, or just before a final newline.
AtEnd(s, p) == p = Len(s) + 1 \/ (p = Len(s) /\ s[p] = "\n")

ExtLit == <<"-", "e", "x", "t", "-", "v">>

None == <<>>
Some(n) == <<n>>

\* VERSION_PATTERN.match(version): the five groups as digit strings (an
\* unmatched optional group is None), or NoMatch.  Every \d+ is followed by a
\* literal that is no digit or by the end, so the greedy run is the only way
\* it can match.
NoMatch == <<>>

\* (?:\.(?P<ext_minor>\d+))?)?$  from position f, after ext_major.
MatchExtMinor(s, groups, f) ==
    LET y == DigitRun(s, f + 1)
    IN  IF HasLit(s, f, <<".">>) /\ y > 0 /\ AtEnd(s, f + y + 1)
        THEN groups \o <<Some(SubSeq(s, f + 1, f + y))>>
        ELSE IF AtEnd(s, f) THEN groups \o <<None>>
        ELSE NoMatch

\* (?:-ext-v(?P<ext_major>\d+)...)?$  from position e, after patch.
MatchExt(s, groups, e) ==
    LET x == DigitRun(s, e + Len(ExtLit))
        m == IF HasLit(s, e, ExtLit) /\ x > 0
             THEN MatchExtMinor(
                      s,
                      groups \o <<Some(SubSeq(s, e + Len(ExtLit),
                                              e + Len(ExtLit) + x - 1))>>,
                      e + Len(ExtLit) + x)
             ELSE NoMatch
    IN  IF m # NoMatch THEN m
        ELSE IF AtEnd(s, e) THEN groups \o <<None, None>>
        ELSE NoMatch

\* \.(?P<patch>\d+)  from position d, after minor.
MatchPatch(s, groups, d) ==
    LET c == DigitRun(s, d + 1)
    IN  IF HasLit(s, d, <<".">>) /\ c > 0
        THEN MatchExt(s, groups \o <<SubSeq(s, d + 1, d + c)>>, d + c + 1)
        ELSE NoMatch

\* \.(?P<minor>\d+)  from position d, after major.
MatchMinor(s, groups, d) ==
    LET b == DigitRun(s, d + 1)
    IN  IF HasLit(s, d, <<".">>) /\ b > 0
        THEN MatchPatch(s, groups \o <<SubSeq(s, d + 1, d + b)>>, d + b + 1)
        ELSE NoMatch

VERSION_PATTERN(s) ==
    LET a == DigitRun(s, 1)
    IN  IF a > 0 THEN MatchMinor(s, <<SubSeq(s, 1, a)>>, a + 1) ELSE NoMatch

\* A raised ValueError, as the value of an operator that would have raised.
ValueError == <<>>

OptInt(group) == IF group = None THEN None ELSE Some(ToInt(group[1]))

parse_version_parts(version) ==
    LET match == VERSION_PATTERN(version)
    IN  IF match = NoMatch THEN ValueError
        ELSE <<ToInt(match[1]), ToInt(match[2]), ToInt(match[3]),
               OptInt(match[4]), OptInt(match[5])>>

\* A key whose rank for "no extension" is 0, the rank of -ext-v0.
KeyWithZeroRank(version) ==
    LET parts == parse_version_parts(version)
    IN  IF parts = ValueError THEN ValueError
        ELSE IF parts[4] = None
        THEN <<parts[1], parts[2], parts[3], 0, 0>>
        ELSE <<parts[1], parts[2], parts[3], parts[4][1],
               IF parts[5] = None THEN 0 ELSE parts[5][1]>>

version_sort_key(version) ==
    LET parts == parse_version_parts(version)
    IN  IF parts = ValueError THEN ValueError
        ELSE IF parts[4] = None
        THEN <<parts[1], parts[2], parts[3], -1, -1>>
        ELSE <<parts[1], parts[2], parts[3], parts[4][1],
               IF parts[5] = None THEN 0 ELSE parts[5][1]>>

\* Python's < on two tuples of five integers.
TupleLess(x, y) ==
    \E j \in 1..5 : x[j] < y[j] /\ \A m \in 1..(j - 1) : x[m] = y[m]

\* Merging two sorted lists of <<key, element>> pairs; of two pairs with equal
\* keys the one of the first list comes first.
RECURSIVE Merge(_, _)
Merge(xs, ys) ==
    IF xs = <<>> THEN ys
    ELSE IF ys = <<>> THEN xs
    ELSE IF TupleLess(Head(ys)[1], Head(xs)[1])
    THEN <<Head(ys)>> \o Merge(xs, Tail(ys))
    ELSE <<Head(xs)>> \o Merge(Tail(xs), ys)

RECURSIVE MergeSort(_)
MergeSort(pairs) ==
    IF Len(pairs) <= 1 THEN pairs
    ELSE Merge(MergeSort(SubSeq(pairs, 1, Len(pairs) \div 2)),
               MergeSort(SubSeq(pairs, Len(pairs) \div 2 + 1, Len(pairs))))

\* A return without the final sort.
Unsorted(list) == list

\* sorted(list, key=version_sort_key): the key is computed once per element
\* and the elements are sorted by it with a stable merge sort.
SortedByKey(list) ==
    LET decorated == [j \in 1..Len(list) |->
                         <<version_sort_key(list[j]), list[j]>>]
        sorted == MergeSort(decorated)
    IN  [j \in 1..Len(list) |-> sorted[j][2]]

----------------------------------------------------------------------------
(* Version strings the model runs on.                                      *)

RECURSIVE ToDigits(_)
ToDigits(n) ==
    IF n < 10 THEN <<Digits[n + 1]>>
    ELSE ToDigits(n \div 10) \o <<Digits[(n % 10) + 1]>>

\* The string of the grammar with the given numbers; ext is <<>>, <<x>> or
\* <<x, y>>.
Render(major, minor, patch, ext) ==
    ToDigits(major) \o <<".">> \o ToDigits(minor) \o <<".">> \o ToDigits(patch)
    \o (IF Len(ext) >= 1 THEN ExtLit \o ToDigits(ext[1]) ELSE <<>>)
    \o (IF Len(ext) = 2 THEN <<".">> \o ToDigits(ext[2]) ELSE <<>>)

\* Tags an upstream feed may carry: 6.0.0, 6.0.0-ext-v1, 6.0.0-ext-v1.0 (same
\* key as the one before), 6.0.9 and 6.0.10 (numeric, not textual, order).
UpstreamTags ==
    { Render(6, 0, 0, <<>>), Render(6, 0, 0, <<1>>), Render(6, 0, 0, <<1, 0>>),
      Render(6, 0, 9, <<>>), Render(6, 0, 10, <<>>) }

\* Strings of a feed that are no versions.
NoiseTags == { <<"l", "a", "t", "e", "s", "t">>,
               Render(6, 0, 1, <<>>) \o <<"-", "b", "e", "t", "a">> }

\* The 100-version list of the spec's scenarios: 6.0.0, 6.0.1, ..., 6.0.99.
ScenarioVersions == [j \in 1..100 |-> Render(6, 0, j - 1, <<>>)]

Range(list) == { list[j] : j \in 1..Len(list) }

ListsUpTo(S, n) == UNION { [1..m -> S] : m \in 0..n }

IsSortedByKey(list) ==
    \A j \in 1..(Len(list) - 1) :
        ~TupleLess(version_sort_key(list[j + 1]), version_sort_key(list[j]))

\* The orders sorted(set(tags), key=version_sort_key) can produce: a set has
\* no order of its own, so tags with equal keys come out either way round.
SortedArrangements(S) ==
    { list \in [1..Cardinality(S) -> S] :
        Range(list) = S /\ IsSortedByKey(list) }

----------------------------------------------------------------------------
(* check_ghcr_tag_exists and filter_versions_binary_search.                *)

\* What one run of `docker buildx imagetools inspect` can do: exit with
\* status 0, exit with another status, or not finish within the timeout (or
\* not start at all), which makes subprocess.run raise.
InspectOutcomes == {"exit0", "exit1", "timeout"}

\* check_ghcr_tag_exists(image, tag): the values the call can have given the
\* environment: "True", "False", or "raise" for an exception that
\* subprocess.run raised and nothing handled.
check_ghcr_tag_exists(tag) ==
    { IF o = "exit0" THEN "True" ELSE IF o = "exit1" THEN "False" ELSE "raise" :
        o \in oracle[tag] }

\* The number of indices before first_missing that are probed again.
RecheckWindow == 5

Max(a, b) == IF a >= b THEN a ELSE b

\* A midpoint rounded up instead of down.
MidRoundedUp(l, r) == (l + r + 1) \div 2

Mid(l, r) == (l + r) \div 2

\* A check_start that drops the window: nothing below first_missing is
\* probed again.
CheckStartNoWindow(fm) == fm

\* A check_start that forgets the window's size: everything below
\* first_missing is probed again.
CheckStartFromZero(fm) == 0

CheckStart(fm) == Max(0, fm - RecheckWindow)

\* A bisection step that forgets to record the missing midpoint.
BisectKeepsBoundary(l, r, fm, mid, exists) ==
    IF exists THEN <<mid + 1, r, fm>> ELSE <<l, mid - 1, fm>>

\* The body of the bisection loop after the probe of mid: the new
\* <<left, right, first_missing>>.
Bisect(l, r, fm, mid, exists) ==
    IF exists THEN <<mid + 1, r, fm>> ELSE <<l, mid - 1, mid>>

\* An entry that leaves out `if force_full_sync: return versions`.
EnterIgnoringForce ==
    /\ pc = "call"
    /\ IF versions = <<>>
       THEN /\ ret' = <<>>
            /\ pc' = "done"
            /\ UNCHANGED <<left, right, first_missing>>
       ELSE /\ left' = 0
            /\ right' = Len(versions) - 1
            /\ first_missing' = Len(versions)
            /\ pc' = "search"
            /\ UNCHANGED ret
    /\ UNCHANGED <<versions, force_full_sync, result, seen, idx, oracle,
                   searchProbes, recheckProbes, probedPresent, probedMissing,
                   windowAdded>>
    /\ UNCHANGED <<dpc, variant_filter, vpos, mirrorSet, keyIn, keyOut>>

\* if not versions: return [] / if force_full_sync: return versions /
\* otherwise set up the bisection.
Enter ==
    /\ pc = "call"
    /\ IF versions = <<>>
       THEN /\ ret' = <<>>
            /\ pc' = "done"
            /\ UNCHANGED <<left, right, first_missing>>
       ELSE IF force_full_sync
       THEN /\ ret' = versions
            /\ pc' = "done"
            /\ UNCHANGED <<left, right, first_missing>>
       ELSE /\ left' = 0
            /\ right' = Len(versions) - 1
            /\ first_missing' = Len(versions)
            /\ pc' = "search"
            /\ UNCHANGED ret
    /\ UNCHANGED <<versions, force_full_sync, result, seen, idx, oracle,
                   searchProbes, recheckProbes, probedPresent, probedMissing,
                   windowAdded>>
    /\ UNCHANGED <<dpc, variant_filter, vpos, mirrorSet, keyIn, keyOut>>

\* One iteration of `while left <= right`.
SearchStep ==
    /\ pc = "search"
    /\ left <= right
    /\ LET mid == Mid(left, right)
       IN  \E o \in check_ghcr_tag_exists(versions[mid + 1]) :
             /\ searchProbes' = searchProbes + 1
             /\ IF o = "raise"
                THEN /\ pc' = "raised"
                     /\ UNCHANGED <<left, right, first_missing, probedPresent,
                                    probedMissing>>
                ELSE /\ left' = Bisect(left, right, first_missing, mid,
                                       o = "True")[1]
                     /\ right' = Bisect(left, right, first_missing, mid,
                                        o = "True")[2]
                     /\ first_missing' = Bisect(left, right, first_missing,
                                                mid, o = "True")[3]
                     /\ probedPresent' =
                            IF o = "True" THEN probedPresent \cup {mid}
                            ELSE probedPresent
                     /\ probedMissing' =
                            IF o = "True" THEN probedMissing
                            ELSE probedMissing \cup {mid}
                     /\ UNCHANGED pc
    /\ UNCHANGED <<versions, force_full_sync, result, seen, idx, ret, oracle,
                   recheckProbes, windowAdded>>
    /\ UNCHANGED <<dpc, variant_filter, vpos, mirrorSet, keyIn, keyOut>>

\* The bisection has ended: seen and result start empty and the first loop,
\* over range(first_missing, count), starts.
EndSearch ==
    /\ pc = "search"
    /\ left > right
    /\ result' = <<>>
    /\ seen' = {}
    /\ idx' = first_missing
    /\ pc' = "tail"
    /\ UNCHANGED <<versions, force_full_sync, left, right, first_missing, ret,
                   oracle, searchProbes, recheckProbes, probedPresent,
                   probedMissing, windowAdded>>
    /\ UNCHANGED <<dpc, variant_filter, vpos, mirrorSet, keyIn, keyOut>>

\* One iteration of `for i in range(first_missing, count)`.
TailStep ==
    /\ pc = "tail"
    /\ idx < Len(versions)
    /\ LET version == versions[idx + 1]
       IN  IF version \notin seen
           THEN /\ result' = Append(result, version)
                /\ seen' = seen \cup {version}
           ELSE UNCHANGED <<result, seen>>
    /\ idx' = idx + 1
    /\ UNCHANGED <<pc, versions, force_full_sync, left, right, first_missing,
                   ret, oracle, searchProbes, recheckProbes, probedPresent,
                   probedMissing, windowAdded>>
    /\ UNCHANGED <<dpc, variant_filter, vpos, mirrorSet, keyIn, keyOut>>

\* The first loop has ended: check_start = max(0, first_missing - 5) and the
\* second loop, over range(check_start, first_missing), starts.
StartRecheck ==
    /\ pc = "tail"
    /\ idx >= Len(versions)
    /\ idx' = CheckStart(first_missing)
    /\ pc' = "recheck"
    /\ UNCHANGED <<versions, force_full_sync, left, right, first_missing,
                   result, seen, ret, oracle, searchProbes, recheckProbes,
                   probedPresent, probedMissing, windowAdded>>
    /\ UNCHANGED <<dpc, variant_filter, vpos, mirrorSet, keyIn, keyOut>>

\* One iteration of `for i in range(check_start, first_missing)`: the probe
\* is issued only for a version not yet in seen (`and` short-circuits).
RecheckStep ==
    /\ pc = "recheck"
    /\ idx < first_missing
    /\ LET version == versions[idx + 1]
       IN  IF version \in seen
           THEN /\ idx' = idx + 1
                /\ UNCHANGED <<pc, result, seen, recheckProbes, probedPresent,
                               probedMissing, windowAdded>>
           ELSE \E o \in check_ghcr_tag_exists(version) :
                  /\ recheckProbes' = recheckProbes + 1
                  /\ IF o = "raise"
                     THEN /\ pc' = "raised"
                          /\ UNCHANGED <<idx, result, seen, probedPresent,
                                         probedMissing, windowAdded>>
                     ELSE IF o = "True"
                     THEN /\ idx' = idx + 1
                          /\ probedPresent' = probedPresent \cup {idx}
                          /\ UNCHANGED <<pc, result, seen, probedMissing,
                                         windowAdded>>
                     ELSE /\ idx' = idx + 1
                          /\ result' = Append(result, version)
                          /\ seen' = seen \cup {version}
                          /\ probedMissing' = probedMissing \cup {idx}
                          /\ windowAdded' = windowAdded \cup {idx}
                          /\ UNCHANGED <<pc, probedPresent>>
    /\ UNCHANGED <<versions, force_full_sync, left, right, first_missing, ret,
                   oracle, searchProbes>>
    /\ UNCHANGED <<dpc, variant_filter, vpos, mirrorSet, keyIn, keyOut>>

\* return sorted(result, key=version_sort_key)
Return ==
    /\ pc = "recheck"
    /\ idx >= first_missing
    /\ ret' = SortedByKey(result)
    /\ pc' = "done"
    /\ UNCHANGED <<versions, force_full_sync, left, right, first_missing,
                   result, seen, idx, oracle, searchProbes, recheckProbes,
                   probedPresent, probedMissing, windowAdded>>
    /\ UNCHANGED <<dpc, variant_filter, vpos, mirrorSet, keyIn, keyOut>>

\* The callee's locals at the start of a call.
FreshCall(list, force, env) ==
    /\ pc = "call"
    /\ versions = list
    /\ force_full_sync = force
    /\ oracle = env
    /\ left = 0 /\ right = 0 /\ first_missing = 0
    /\ result = <<>> /\ seen = {} /\ idx = 0 /\ ret = <<>>
    /\ searchProbes = 0 /\ recheckProbes = 0
    /\ probedPresent = {} /\ probedMissing = {} /\ windowAdded = {}

NoDiscover ==
    /\ dpc = "none" /\ variant_filter = "all" /\ vpos = 0
    /\ mirrorSet = <<>>

NoKey == keyIn = <<>> /\ keyOut = <<>>

\* Every outcome is possible for every probe, call by call.
AnyOutcome(list) == [t \in Range(list) |-> InspectOutcomes]

\* One call of filter_versions_binary_search on any list of versions (in any
\* order, repeats allowed) with any probe behaviour.
Init ==
    /\ \E list \in ListsUpTo(UpstreamTags, MaxLen) \cup {ScenarioVersions} :
       \E force \in BOOLEAN :
          FreshCall(list, force, AnyOutcome(list))
    /\ NoDiscover
    /\ NoKey

Next ==
    \/ Enter
    \/ SearchStep
    \/ EndSearch
    \/ TailStep
    \/ StartRecheck
    \/ RecheckStep
    \/ Return

Spec == Init /\ [][Next]_vars

----------------------------------------------------------------------------
(* The registry states of the spec's scenarios: present up to a boundary,  *)
(* with at most one gap below it.                                          *)

\* The probe answers True exactly for the indices below k other than g, and
\* False for the rest; it never raises.  g = -1: no gap.
BoundaryOracle(list, k, g) ==
    [t \in Range(list) |->
        LET j == CHOOSE m \in 0..(Len(list) - 1) : list[m + 1] = t
        IN  IF j < k /\ j # g THEN {"exit0"} ELSE {"exit1"}]

\* The lists get_dockerhub_tags can return: distinct versions sorted by key.
SortedLists ==
    UNION { SortedArrangements(S) :
              S \in { T \in SUBSET UpstreamTags : Cardinality(T) <= MaxLen } }

\* One call on a sorted list of distinct versions, without force_full_sync,
\* against a registry that holds the versions below a boundary k except
\* possibly one, g, among the RecheckWindow versions just below k.
InitBoundary ==
    /\ \E list \in SortedLists \cup {ScenarioVersions} :
       \E k \in 0..Len(list) :
       \E g \in -1..(k - 1) :
          /\ g = -1 \/ k - g <= RecheckWindow
          /\ FreshCall(list, FALSE, BoundaryOracle(list, k, g))
    /\ NoDiscover
    /\ NoKey

SpecBoundary == InitBoundary /\ [][Next]_vars

----------------------------------------------------------------------------
(* get_dockerhub_tags and discover_versions.                               *)

\* Longest tag listing of one upstream image in a discovery run.
MaxFeed == 2

\* variants.items(), in the dict's order.
Variants == <<"official", "full", "cep">>

\* get_dockerhub_tags(image): the pages fetched until the listing ends or a
\* request fails hold some set of strings; the ones matching VERSION_PATTERN
\* are returned, each once, sorted by key.  A request that fails with
\* URLError, HTTPError or JSONDecodeError ends the loop and is not raised.
get_dockerhub_tags ==
    UNION { SortedArrangements({ t \in fetched : VERSION_PATTERN(t) # NoMatch }) :
              fetched \in { T \in SUBSET (UpstreamTags \cup NoiseTags) :
                              Cardinality(T) <= MaxFeed } }

\* The callee is not running: its locals do not exist.
FilterIdle ==
    /\ pc = "idle"
    /\ versions = <<>> /\ oracle = <<>>
    /\ left = 0 /\ right = 0 /\ first_missing = 0
    /\ result = <<>> /\ seen = {} /\ idx = 0 /\ ret = <<>>
    /\ searchProbes = 0 /\ recheckProbes = 0
    /\ probedPresent = {} /\ probedMissing = {} /\ windowAdded = {}

\* The callee returns or raises: its locals are gone.
LeaveFilter ==
    /\ pc' = "idle"
    /\ versions' = <<>> /\ oracle' = <<>>
    /\ left' = 0 /\ right' = 0 /\ first_missing' = 0
    /\ result' = <<>> /\ seen' = {} /\ idx' = 0 /\ ret' = <<>>
    /\ searchProbes' = 0 /\ recheckProbes' = 0
    /\ probedPresent' = {} /\ probedMissing' = {} /\ windowAdded' = {}

\* `if variant_filter not in ('all', variant): result[variant] = []; continue`
DiscoverSkip ==
    /\ dpc = "loop"
    /\ vpos <= Len(Variants)
    /\ variant_filter \notin {"all", Variants[vpos]}
    /\ mirrorSet' = (Variants[vpos] :> <<>>) @@ mirrorSet
    /\ vpos' = vpos + 1
    /\ UNCHANGED <<dpc, variant_filter>>
    /\ UNCHANGED filterVars
    /\ UNCHANGED keyVars

\* all_versions = get_dockerhub_tags(source_image), then the call of
\* filter_versions_binary_search(all_versions, variant, image, force_full_sync).
DiscoverCall ==
    /\ dpc = "loop"
    /\ vpos <= Len(Variants)
    /\ variant_filter \in {"all", Variants[vpos]}
    /\ \E all_versions \in get_dockerhub_tags :
          /\ versions' = all_versions
          /\ oracle' = [t \in Range(all_versions) |-> InspectOutcomes]
    /\ pc' = "call"
    /\ dpc' = "filter"
    /\ UNCHANGED <<force_full_sync, left, right, first_missing, result, seen,
                   idx, ret, searchProbes, recheckProbes, probedPresent,
                   probedMissing, windowAdded>>
    /\ UNCHANGED <<variant_filter, vpos, mirrorSet>>
    /\ UNCHANGED keyVars

\* result[variant] = filtered: the call has returned and its locals are gone.
DiscoverStore ==
    /\ dpc = "filter"
    /\ pc = "done"
    /\ mirrorSet' = (Variants[vpos] :> ret) @@ mirrorSet
    /\ vpos' = vpos + 1
    /\ dpc' = "loop"
    /\ LeaveFilter
    /\ UNCHANGED <<force_full_sync, variant_filter>>
    /\ UNCHANGED keyVars

\* The call has raised: nothing in discover_versions catches it, so it leaves
\* discover_versions too and the variants not yet processed get no entry.
DiscoverRaise ==
    /\ dpc = "filter"
    /\ pc = "raised"
    /\ dpc' = "raised"
    /\ LeaveFilter
    /\ UNCHANGED <<force_full_sync, variant_filter, vpos, mirrorSet>>
    /\ UNCHANGED keyVars

\* return result
DiscoverReturn ==
    /\ dpc = "loop"
    /\ vpos > Len(Variants)
    /\ dpc' = "returned"
    /\ UNCHANGED <<variant_filter, vpos, mirrorSet>>
    /\ UNCHANGED filterVars
    /\ UNCHANGED keyVars

InitDiscover ==
    /\ dpc = "loop"
    /\ vpos = 1
    /\ variant_filter \in {"all"} \cup Range(Variants)
    /\ mirrorSet = <<>>
    /\ force_full_sync \in BOOLEAN
    /\ FilterIdle
    /\ NoKey

NextDiscover ==
    \/ DiscoverSkip
    \/ DiscoverCall
    \/ Enter
    \/ SearchStep
    \/ EndSearch
    \/ TailStep
    \/ StartRecheck
    \/ RecheckStep
    \/ Return
    \/ DiscoverStore
    \/ DiscoverRaise
    \/ DiscoverReturn

SpecDiscover == InitDiscover /\ [][NextDiscover]_vars

----------------------------------------------------------------------------
(* version_sort_key on pairs of version strings.                           *)

\* Numbers used for the components of the generated strings (a patch of 10
\* is there for a number of two digits), and the strings of the spec's
\* example 6.0.0 < 6.0.0-ext-v1 < 6.0.0-ext-v1.1 < 6.0.0-ext-v2.
PartValues == 0..MaxPart

ExtValues ==
    {<<>>} \cup { <<x>> : x \in PartValues }
           \cup { <<x, y>> : x \in PartValues, y \in PartValues }

\* A generated version: the numbers it was written from and its text.
KeyInputs ==
    { [parts |-> <<major, minor, patch, ext>>,
       text  |-> Render(major, minor, patch, ext)] :
        major \in PartValues, minor \in PartValues,
        patch \in {0, 10}, ext \in ExtValues }
    \cup
    { [parts |-> <<6, 0, 0, ext>>, text |-> Render(6, 0, 0, ext)] :
        ext \in {<<>>, <<1>>, <<1, 1>>, <<2>>} }

InitKey ==
    /\ keyIn \in KeyInputs \X KeyInputs
    /\ keyOut = <<>>
    /\ dpc = "none" /\ variant_filter = "all" /\ vpos = 0 /\ mirrorSet = <<>>
    /\ force_full_sync = FALSE
    /\ FilterIdle

\* The keys of the two strings, as sorted() computes them to compare them.
SortKeys ==
    /\ keyIn # <<>>
    /\ keyOut = <<>>
    /\ keyOut' = <<version_sort_key(keyIn[1].text),
                   version_sort_key(keyIn[2].text)>>
    /\ UNCHANGED keyIn
    /\ UNCHANGED filterVars
    /\ UNCHANGED discoverVars

NextKey == SortKeys

SpecKey == InitKey /\ [][NextKey]_vars

----------------------------------------------------------------------------
(* Properties.                                                             *)

Count == Len(versions)

\* The version at 0-based index j.
At(j) == versions[j + 1]

\* The probe of index j can only answer True / can only answer False.
ProbeTrue(j) == check_ghcr_tag_exists(At(j)) = {"True"}
ProbeFalse(j) == check_ghcr_tag_exists(At(j)) = {"False"}

\* The probe answers True exactly for the indices [0, k) and False for [k, n).
MonotoneAt(k) ==
    \A j \in 0..(Count - 1) : IF j < k THEN ProbeTrue(j) ELSE ProbeFalse(j)

\* As MonotoneAt(k), except that the probe answers False for index g < k.
GapAt(k, g) ==
    \A j \in 0..(Count - 1) :
        IF j < k /\ j # g THEN ProbeTrue(j) ELSE ProbeFalse(j)

\* The spec's gap scenario: 100 versions, boundary 60, index 55 missing.
GapScenario == Count = 100 /\ GapAt(60, 55)

Distinct(list) ==
    \A a, b \in 1..Len(list) : list[a] = list[b] => a = b

RECURSIVE Log2Floor(_)
Log2Floor(n) == IF n <= 1 THEN 0 ELSE 1 + Log2Floor(n \div 2)

\* C1: on a sorted list of distinct versions whose probe answers True exactly
\* for the indices [0, k) and False for [k, n), a call without force_full_sync
\* returns exactly the versions at indices [k, n), in their original order:
\* nothing for k = n, the whole list for k = 0.
C1_MonotoneResult ==
    pc = "done" /\ ~force_full_sync =>
        \A k \in 0..Count :
            MonotoneAt(k) => ret = SubSeq(versions, k + 1, Count)

C1_Witness ==
    /\ pc = "done"
    /\ Count = 100
    /\ MonotoneAt(60)
    /\ searchProbes > 0
    /\ ret = SubSeq(versions, 61, 100)

\* C2: when the probe answers False for [k, n) and True for [0, k) except one
\* gap index g with max(0, k - 5) <= g < k, the returned list holds the version
\* at index g and every version at the indices [k, n).
C2_GapDetected ==
    pc = "done" =>
        \A k \in 0..Count :
            \A g \in 0..(k - 1) :
                (k - g <= 5 /\ GapAt(k, g)) =>
                    /\ At(g) \in Range(ret)
                    /\ \A j \in k..(Count - 1) : At(j) \in Range(ret)

\* The gap 57 of boundary 60 is not a midpoint of the bisection: only the
\* re-check window finds it.
C2_Witness ==
    /\ pc = "done"
    /\ Count = 100
    /\ GapAt(60, 57)
    /\ first_missing = 60
    /\ windowAdded = {57}
    /\ At(57) \in Range(ret)

\* C3: a probe that fails instead of answering (the inspect call times out or
\* cannot be run) is taken as "not present" and the call still returns: the
\* failure never leaves filter_versions_binary_search.
C3_ProbeFailureContained == pc # "raised"

\* C4: an error while one variant's versions-to-mirror are computed never
\* stops discover_versions: the run ends with an entry for each of the three
\* variants.
C4_VariantIsolation ==
    dpc \in {"returned", "raised"} => DOMAIN mirrorSet = Range(Variants)

\* C5: with force_full_sync the call returns the input list unchanged and
\* issues no probe; on the empty list it returns the empty list and issues no
\* probe whatever the flag.
C5_ForceFullSync ==
    (force_full_sync \/ versions = <<>>) =>
        /\ searchProbes = 0
        /\ recheckProbes = 0
        /\ pc \in {"call", "done"}
        /\ pc = "done" => ret = versions

C5_Witness ==
    /\ pc = "done"
    /\ force_full_sync
    /\ Count = 100
    /\ ret = versions
    /\ searchProbes + recheckProbes = 0

\* C6: a call on n >= 1 versions without force_full_sync issues at most
\* floor(log2(n)) + 1 probes in the bisection and at most 5 in the re-check
\* window, so at most floor(log2(n)) + 6 in all (12 for n = 100), whatever the
\* probes answer.
C6_BoundedProbing ==
    Count >= 1 =>
        /\ searchProbes <= Log2Floor(Count) + 1
        /\ recheckProbes <= 5
        /\ searchProbes + recheckProbes <= Log2Floor(Count) + 6
        /\ Count = 100 => searchProbes + recheckProbes <= 12

\* The bound is met: 7 probes in the bisection of 100 versions and 5 in the
\* window.
C6_Witness ==
    /\ pc = "done"
    /\ Count = 100
    /\ searchProbes = 7
    /\ recheckProbes = 5

\* C7: the list returned without force_full_sync holds only strings of the
\* input list, holds none twice and is sorted ascending by version_sort_key,
\* also when the input list repeats strings.
C7_ResultShape ==
    pc = "done" /\ ~force_full_sync =>
        /\ Range(ret) \subseteq Range(versions)
        /\ Distinct(ret)
        /\ IsSortedByKey(ret)

\* An input list with a repeated string, out of order, all of it returned.
C7_Witness ==
    /\ pc = "done"
    /\ ~force_full_sync
    /\ ~Distinct(versions)
    /\ ~IsSortedByKey(versions)
    /\ Range(ret) = Range(versions)
    /\ Len(ret) = 2

\* The order the claim C8 states, from the numbers a version was written
\* with: (major, minor, patch, rank, extension minor), rank -1 without an
\* extension, an omitted extension minor counting as 0.
ClaimedKey(parts) ==
    <<parts[1], parts[2], parts[3],
      IF Len(parts[4]) = 0 THEN -1 ELSE parts[4][1],
      IF Len(parts[4]) = 2 THEN parts[4][2] ELSE 0>>

SameBase(p, q) == p[1] = q[1] /\ p[2] = q[2] /\ p[3] = q[3]

\* C8: version_sort_key orders versions as (major, minor, patch, extension
\* rank, extension minor) does, with rank -1 for no extension and 0 for an
\* omitted extension minor; so a version without extension comes strictly
\* before every version of the same (major, minor, patch) with one, and
\* 6.0.0 < 6.0.0-ext-v1 < 6.0.0-ext-v1.1 < 6.0.0-ext-v2.
C8_CanonicalOrdering ==
    keyOut # <<>> =>
        LET p == keyIn[1].parts
            q == keyIn[2].parts
        IN  /\ TupleLess(keyOut[1], keyOut[2])
                  <=> TupleLess(ClaimedKey(p), ClaimedKey(q))
            /\ (SameBase(p, q) /\ p[4] = <<>> /\ q[4] # <<>>)
                  => TupleLess(keyOut[1], keyOut[2])
            /\ (SameBase(p, q) /\ p[4] # <<>> /\ q[4] # <<>>
                  /\ p[4][1] < q[4][1])
                  => TupleLess(keyOut[1], keyOut[2])
            /\ (SameBase(p, q) /\ <<p[4], q[4]>> \in
                    {<<<<>>, <<1>>>>, <<<<1>>, <<1, 1>>>>, <<<<1, 1>>, <<2>>>>})
                  => TupleLess(keyOut[1], keyOut[2])

C8_Witness ==
    /\ keyOut # <<>>
    /\ keyIn[1].text = <<"6", ".", "0", ".", "0">>
    /\ keyIn[2].text =
           <<"6", ".", "0", ".", "0", "-", "e", "x", "t", "-", "v", "1">>
    /\ TupleLess(keyOut[1], keyOut[2])

\* C9: throughout the bisection loop first_missing = right + 1; when the loop
\* ends (left > right) first_missing = left, and then first_missing = n or the
\* version at first_missing was probed and reported missing, and
\* first_missing = 0 or the version at first_missing - 1 was probed and
\* reported present.
C9_BisectionBoundary ==
    pc = "search" =>
        /\ first_missing = right + 1
        /\ left > right =>
              /\ first_missing = left
              /\ first_missing = Count \/ first_missing \in probedMissing
              /\ first_missing = 0 \/ (first_missing - 1) \in probedPresent

C9_Witness ==
    /\ pc = "search"
    /\ left > right
    /\ Count = 100
    /\ first_missing = 60
    /\ 60 \in probedMissing
    /\ 59 \in probedPresent

\* C10 as stated: in the gap scenario the bisection ends with
\* first_missing = 60 and index 55 enters the result through the re-check of
\* the indices 55 to 59, not through the tail.
C10_GapThroughWindow ==
    GapScenario =>
        /\ pc \in {"tail", "recheck", "done"} => first_missing = 60
        /\ pc = "done" => 55 \in windowAdded

\* C10 as amended: in the gap scenario the bisection probes index 55 itself
\* and ends with first_missing = 55; index 55 enters the result through the
\* tail from first_missing on, the re-check window (indices 50 to 54) adds
\* nothing, and the returned list is the versions at the indices [55, 100).
C10_GapThroughTail ==
    GapScenario =>
        /\ pc \in {"tail", "recheck", "done"} =>
              /\ first_missing = 55
              /\ 55 \in probedMissing
        /\ pc = "done" =>
              /\ windowAdded = {}
              /\ ret = SubSeq(versions, 56, 100)

C10_Witness ==
    /\ GapScenario
    /\ pc = "done"
    /\ first_missing = 55
    /\ At(55) \in Range(ret)

====
